---- MODULE Spec2Model ----
(***************************************************************************)
(* Model of src/slice-reader.ts: fetchSlice and deleteSlice, the local     *)
(* cache tree they work on, the remote actions they invoke and the         *)
(* download stream fetchSlice consumes.                                    *)
(*                                                                         *)
(* A path is a sequence of segments (<<"tmp","slices","foo">> is           *)
(* /tmp/slices/foo).  A zip entry name is the sequence obtained by         *)
(* splitting it at "/", so that "lib/" is <<"lib","">>.  A 32-bit          *)
(* attribute is held as the two's complement integer of its bit pattern.   *)
(***************************************************************************)
EXTENDS Integers, Sequences, FiniteSets, TLC

(***************************************************************************)
(* Bounds of the model.                                                    *)
(***************************************************************************)
MaxCalls == 2

MaxEntries == 2

MaxChunks == 3

MaxNameLen == 3

(***************************************************************************)
(* Program constants.                                                      *)
(***************************************************************************)
MAX_SLICE_UPLOAD_SIZE == 64 * 1024 * 1024

TEMP == <<"tmp">>

TIMEOUT_SECONDS == 60

GET_DOWNLOAD_URL == "builder/getDownloadUrl"

DELETE_ASSETS_URL == "builder/deleteBuildAssets"

(***************************************************************************)
(* path.join, path.dirname, path.relative on absolute paths.               *)
(***************************************************************************)
RECURSIVE NormalizeFrom(_, _)
NormalizeFrom(acc, segs) ==
  IF segs = <<>> THEN acc
  ELSE LET s == Head(segs)
           next == IF s = "" \/ s = "." THEN acc
                   ELSE IF s = ".."
                        THEN (IF acc = <<>> THEN acc
                              ELSE SubSeq(acc, 1, Len(acc) - 1))
                        ELSE Append(acc, s)
       IN NormalizeFrom(next, Tail(segs))

PathJoin(a, b) == NormalizeFrom(<<>>, a \o b)

PathDirname(p) == IF p = <<>> THEN p ELSE SubSeq(p, 1, Len(p) - 1)

IsPrefix(p, q) == Len(p) <= Len(q) /\ SubSeq(q, 1, Len(p)) = p

RECURSIVE CommonLen(_, _)
CommonLen(p, q) ==
  IF p = <<>> \/ q = <<>> \/ Head(p) # Head(q) THEN 0
  ELSE 1 + CommonLen(Tail(p), Tail(q))

PathRelativeLastSegment(from, to) ==
  IF to = <<>> THEN to ELSE <<to[Len(to)]>>

PathRelativeBasename(from, to) ==
  IF to = <<>> THEN to ELSE <<"slices", to[Len(to)]>>

PathRelative(from, to) ==
  LET k == CommonLen(from, to)
  IN [i \in 1..(Len(from) - k) |-> ".."] \o SubSeq(to, k + 1, Len(to))

cacheArea == PathJoin(TEMP, <<"slices">>)

(***************************************************************************)
(* The file system: the set of directories and the files with their       *)
(* permission bits and content.                                            *)
(***************************************************************************)
RECURSIVE ClearBits(_, _, _)
ClearBits(m, u, n) ==
  IF n = 0 THEN 0
  ELSE (IF u % 2 = 1 THEN 0 ELSE m % 2) + 2 * ClearBits(m \div 2, u \div 2, n - 1)

CreateMode(mode, mask) == ClearBits(mode % 4096, mask, 12)

Prefixes(p) == {SubSeq(p, 1, k) : k \in 0..Len(p)}

ExistsSync(f, p) == p \in f.dirs \/ p \in DOMAIN f.files

RimrafSync(f, p) ==
  [dirs  |-> {d \in f.dirs : ~IsPrefix(p, d)},
   files |-> [q \in {r \in DOMAIN f.files : ~IsPrefix(p, r)} |-> f.files[q]]]

MkdirCan(f, p) == Prefixes(p) \cap DOMAIN f.files = {}

MkdirSync(f, p) == [f EXCEPT !.dirs = @ \cup Prefixes(p)]

WriteCan(f, target) ==
  /\ target \notin f.dirs
  /\ PathDirname(target) \in f.dirs

WriteFileSync(f, target, data, mode, mask) ==
  LET old == target \in DOMAIN f.files
      node == [mode |-> IF old THEN f.files[target].mode ELSE CreateMode(mode, mask),
               data |-> data]
  IN [f EXCEPT !.files =
        [q \in DOMAIN f.files \cup {target} |-> IF q = target THEN node ELSE f.files[q]]]

(***************************************************************************)
(* Zip archives as adm-zip presents them: getEntries() in archive order,   *)
(* isDirectory from the trailing separator of the entry name, attr as the  *)
(* 32-bit external attribute.                                              *)
(***************************************************************************)
Attr(unixMode, dosBits) ==
  IF unixMode >= 32768 THEN (unixMode - 65536) * 65536 + dosBits
  ELSE unixMode * 65536 + dosBits

EntryPool ==
  { [entryName |-> <<"index.js">>,           attr |-> Attr(33188, 32), data |-> "v1"],
    [entryName |-> <<"lib", "">>,            attr |-> Attr(16877, 16), data |-> ""],
    [entryName |-> <<"lib", "util.js">>,     attr |-> Attr(33261, 0),  data |-> "v1"],
    [entryName |-> <<"lib">>,                attr |-> Attr(33204, 0),  data |-> "v2"],
    [entryName |-> <<"..", "bar", "x.js">>,  attr |-> Attr(420, 0),    data |-> "v1"] }

DistinctNames(a) ==
  \A i, j \in 1..Len(a) : a[i].entryName = a[j].entryName => i = j

SeqsUpTo(S, n) == UNION {[1..k -> S] : k \in 0..n}

Archives == {a \in SeqsUpTo(EntryPool, MaxEntries) : DistinctNames(a)}

Malformed == <<[entryName |-> <<>>, attr |-> 0, data |-> "not a zip"]>>

isDirectory(e) == e.entryName # <<>> /\ e.entryName[Len(e.entryName)] = ""

FileEntriesWithDirectories(a) == a

FileEntries(a) == SelectSeq(a, LAMBDA e : ~isDirectory(e))

SignedShiftRight16(a) == a \div 65536

UnsignedShiftRight16(a) ==
  IF a >= 0 THEN a \div 65536
  ELSE ((a + 2147483647 + 1) \div 65536) + 32768

(***************************************************************************)
(* Errors as the caller sees them: the message text, the slice name the    *)
(* message carries (<<>> when it carries none) and, for file system        *)
(* errors, the path the message quotes.                                    *)
(***************************************************************************)
NoName == <<>>

Error(text, slice, path) == [text |-> text, slice |-> slice, path |-> path]

TimedOutError(sliceName) ==
  Error("Timed out fetching assets url for", sliceName, <<>>)

FailedError(sliceName) ==
  Error("Failed to fetch assets url for", sliceName, <<>>)

InvokeError == Error("openwhisk: request returned HTTP error", NoName, <<>>)

AxiosError == Error("Request failed", NoName, <<>>)

ZipError == Error("Invalid or unsupported zip format", NoName, <<>>)

FsError(path) == Error("ENOTDIR/EEXIST/EISDIR/ENOENT", NoName, path)

(***************************************************************************)
(* The body of the for loop of fetchSlice and the loop itself.  The result *)
(* is the file system reached and the error thrown, if any.                *)
(***************************************************************************)
StoreEntry(f, cache, entry, mask) ==
  LET target == PathJoin(cache, entry.entryName)
      parent == PathDirname(target)
      mode   == UnsignedShiftRight16(entry.attr)
  IN IF ~ExistsSync(f, parent) /\ ~MkdirCan(f, parent)
     THEN [fs |-> f, ok |-> FALSE, error |-> FsError(parent)]
     ELSE LET g == IF ~ExistsSync(f, parent) THEN MkdirSync(f, parent) ELSE f
          IN IF WriteCan(g, target)
             THEN [fs |-> WriteFileSync(g, target, entry.data, mode, mask),
                   ok |-> TRUE, error |-> FsError(<<>>)]
             ELSE [fs |-> g, ok |-> FALSE, error |-> FsError(target)]

RECURSIVE StoreEntries(_, _, _, _)
StoreEntries(f, cache, entries, mask) ==
  IF entries = <<>> THEN [fs |-> f, ok |-> TRUE, error |-> FsError(<<>>)]
  ELSE LET r == StoreEntry(f, cache, Head(entries), mask)
       IN IF r.ok THEN StoreEntries(r.fs, cache, Tail(entries), mask) ELSE r

ExtractZip(f, cache, data, mask) ==
  IF data = Malformed
  THEN [fs |-> f, ok |-> FALSE, error |-> ZipError]
  ELSE StoreEntries(f, cache, FileEntries(data), mask)

ResetCacheWholeArea(f, cache) ==
  LET g == IF ExistsSync(f, cache) THEN RimrafSync(f, PathDirname(cache)) ELSE f
  IN IF MkdirCan(g, cache)
     THEN [fs |-> MkdirSync(g, cache), ok |-> TRUE, error |-> FsError(<<>>)]
     ELSE [fs |-> g, ok |-> FALSE, error |-> FsError(cache)]

ResetCacheWithoutDelete(f, cache) ==
  IF MkdirCan(f, cache)
  THEN [fs |-> MkdirSync(f, cache), ok |-> TRUE, error |-> FsError(<<>>)]
  ELSE [fs |-> f, ok |-> FALSE, error |-> FsError(cache)]

ResetCache(f, cache) ==
  LET g == IF ExistsSync(f, cache) THEN RimrafSync(f, cache) ELSE f
  IN IF MkdirCan(g, cache)
     THEN [fs |-> MkdirSync(g, cache), ok |-> TRUE, error |-> FsError(<<>>)]
     ELSE [fs |-> g, ok |-> FALSE, error |-> FsError(cache)]

(***************************************************************************)
(* Inputs of the calls and answers of the environment.                     *)
(***************************************************************************)
SliceNames == {<<"foo">>, <<"bar">>, <<"foo", "lib">>}

Calls == 1..MaxCalls

Undefined == "<undefined>"

Url == "https://bucket/slice.zip"

NotWaited == [status |-> "pending", hasResponse |-> FALSE, success |-> FALSE, url |-> Undefined]

Timeout == [status |-> "timedout", hasResponse |-> FALSE, success |-> FALSE, url |-> Undefined]

Activation(hasResponse, success, url) ==
  [status |-> "completed", hasResponse |-> hasResponse, success |-> success, url |-> url]

Activations ==
  { Activation(FALSE, FALSE, Undefined),
    Activation(TRUE, FALSE, Undefined),
    Activation(TRUE, FALSE, Url),
    Activation(TRUE, TRUE, Undefined),
    Activation(TRUE, TRUE, ""),
    Activation(TRUE, TRUE, Url) }

ChunkBytes == MAX_SLICE_UPLOAD_SIZE \div 2

BodySizes == {k * ChunkBytes : k \in 1..MaxChunks}

Umasks == {0, 18}

NoStream == [status |-> "none", size |-> 0]

Pending == [kind |-> "pending", value |-> <<>>, error |-> Error("", NoName, <<>>)]

Returned(value) == [kind |-> "returned", value |-> value, error |-> Error("", NoName, <<>>)]

Threw(error) == [kind |-> "threw", value |-> <<>>, error |-> error]

Request(action, name) == [action |-> action, name |-> name]

(***************************************************************************)
(* State.                                                                  *)
(***************************************************************************)
VARIABLES
  fs,        \* the local file system
  umask,     \* the file mode creation mask of the process
  crashed,   \* the process died of an uncaught exception
  op,        \* per call: "none", "fetch" or "delete"
  arg,       \* per call: sliceName of fetchSlice, project.filePath of deleteSlice
  pc,        \* per call: the step the call has reached
  sent,      \* per call: the remote requests it has issued, in order
  waited,    \* per call: the timeout in seconds given to waitForActivation
  activation,\* per call: what waitForActivation returned
  stream,    \* per call: the download response stream
  buffer,    \* per call: the number of bytes held by the memory sink
  zip,       \* per call: the archive read from the buffer
  outcome    \* per call: what the caller got

vars == <<fs, umask, crashed, op, arg, pc, sent, waited, activation, stream, buffer, zip, outcome>>

Active(c) ==
  /\ pc[c] \in {"Submitting", "Polling", "Downloading", "Extracting"}
  /\ stream[c].status # "errored"

Init ==
  /\ fs = [dirs |-> Prefixes(TEMP), files |-> <<>>]
  /\ umask \in Umasks
  /\ crashed = FALSE
  /\ op = [c \in Calls |-> "none"]
  /\ arg = [c \in Calls |-> <<>>]
  /\ pc = [c \in Calls |-> "Idle"]
  /\ sent = [c \in Calls |-> <<>>]
  /\ waited = [c \in Calls |-> 0]
  /\ activation = [c \in Calls |-> NotWaited]
  /\ stream = [c \in Calls |-> NoStream]
  /\ buffer = [c \in Calls |-> 0]
  /\ zip = [c \in Calls |-> <<>>]
  /\ outcome = [c \in Calls |-> Pending]

CanStart(c) ==
  /\ ~crashed
  /\ pc[c] = "Idle"
  /\ \A d \in Calls : d < c => pc[d] # "Idle"

(***************************************************************************)
(* Steps shared by fetchSlice and deleteSlice: owClient.actions.invoke     *)
(* answers with an activation id or rejects.                               *)
(***************************************************************************)
InvokeResolves(c) ==
  /\ ~crashed
  /\ pc[c] = "Submitting"
  /\ pc' = [pc EXCEPT ![c] = "Polling"]
  /\ waited' = [waited EXCEPT ![c] = TIMEOUT_SECONDS]
  /\ UNCHANGED <<fs, umask, crashed, op, arg, sent, activation, stream, buffer, zip, outcome>>

InvokeRejects(c) ==
  /\ ~crashed
  /\ pc[c] = "Submitting"
  /\ pc' = [pc EXCEPT ![c] = "Failed"]
  /\ outcome' = [outcome EXCEPT ![c] = Threw(InvokeError)]
  /\ UNCHANGED <<fs, umask, crashed, op, arg, sent, waited, activation, stream, buffer, zip>>

(***************************************************************************)
(* waitForActivation: the activation, or nothing when the timeout elapsed. *)
(***************************************************************************)
WaitForActivation(timeoutSec) ==
  IF timeoutSec > 0 THEN Activations \cup {Timeout} ELSE {Timeout}

(***************************************************************************)
(* fetchSlice.                                                             *)
(***************************************************************************)
FetchStartResetting(c, sliceName) ==
  /\ CanStart(c)
  /\ op' = [op EXCEPT ![c] = "fetch"]
  /\ arg' = [arg EXCEPT ![c] = sliceName]
  /\ sent' = [sent EXCEPT ![c] = Append(@, Request(GET_DOWNLOAD_URL, sliceName))]
  /\ pc' = [pc EXCEPT ![c] = "Submitting"]
  /\ fs' = ResetCache(fs, PathJoin(cacheArea, sliceName)).fs
  /\ UNCHANGED <<umask, crashed, waited, activation, stream, buffer, zip, outcome>>

FetchStart(c, sliceName) ==
  /\ CanStart(c)
  /\ op' = [op EXCEPT ![c] = "fetch"]
  /\ arg' = [arg EXCEPT ![c] = sliceName]
  /\ sent' = [sent EXCEPT ![c] = Append(@, Request(GET_DOWNLOAD_URL, sliceName))]
  /\ pc' = [pc EXCEPT ![c] = "Submitting"]
  /\ UNCHANGED <<fs, umask, crashed, waited, activation, stream, buffer, zip, outcome>>

UnusableUrlUnchecked(act) ==
  \/ ~act.hasResponse
  \/ ~act.success

Unusable(act) ==
  \/ ~act.hasResponse
  \/ ~act.success
  \/ act.url \in {Undefined, ""}

AfterActivationTimeoutUnchecked(sliceName, act) ==
  IF Unusable(act)
  THEN [pc |-> "Failed", outcome |-> Threw(FailedError(sliceName)), get |-> <<>>]
  ELSE [pc |-> "Downloading", outcome |-> Pending,
        get |-> <<Request("GET", <<act.url>>)>>]

AfterActivation(sliceName, act) ==
  IF act.status = "timedout"
  THEN [pc |-> "TimedOut", outcome |-> Threw(TimedOutError(sliceName)), get |-> <<>>]
  ELSE IF Unusable(act)
       THEN [pc |-> "Failed", outcome |-> Threw(FailedError(sliceName)), get |-> <<>>]
       ELSE [pc |-> "Downloading", outcome |-> Pending,
             get |-> <<Request("GET", <<act.url>>)>>]

FetchActivationRetrying(c, a) ==
  /\ ~crashed
  /\ pc[c] = "Polling" /\ op[c] = "fetch"
  /\ activation' = [activation EXCEPT ![c] = a]
  /\ LET r == AfterActivation(arg[c], a)
     IN IF r.pc = "TimedOut"
        THEN /\ pc' = [pc EXCEPT ![c] = "Failed"]
             /\ outcome' = [outcome EXCEPT ![c] = r.outcome]
             /\ sent' = [sent EXCEPT ![c] = Append(@, Request(GET_DOWNLOAD_URL, arg[c]))]
             /\ UNCHANGED stream
        ELSE /\ pc' = [pc EXCEPT ![c] = r.pc]
             /\ outcome' = [outcome EXCEPT ![c] = r.outcome]
             /\ sent' = [sent EXCEPT ![c] = @ \o r.get]
             /\ stream' = [stream EXCEPT ![c] =
                  IF r.pc = "Downloading" THEN [status |-> "requested", size |-> 0] ELSE @]
  /\ UNCHANGED <<fs, umask, crashed, op, arg, waited, buffer, zip>>

FetchActivation(c, a) ==
  /\ ~crashed
  /\ pc[c] = "Polling" /\ op[c] = "fetch"
  /\ activation' = [activation EXCEPT ![c] = a]
  /\ LET r == AfterActivation(arg[c], a)
     IN /\ pc' = [pc EXCEPT ![c] = r.pc]
        /\ outcome' = [outcome EXCEPT ![c] = r.outcome]
        /\ sent' = [sent EXCEPT ![c] = @ \o r.get]
        /\ stream' = [stream EXCEPT ![c] =
             IF r.pc = "Downloading" THEN [status |-> "requested", size |-> 0] ELSE @]
  /\ UNCHANGED <<fs, umask, crashed, op, arg, waited, buffer, zip>>

AxiosRejects(c) ==
  /\ ~crashed
  /\ pc[c] = "Downloading" /\ stream[c].status = "requested"
  /\ pc' = [pc EXCEPT ![c] = "Failed"]
  /\ stream' = [stream EXCEPT ![c] = NoStream]
  /\ outcome' = [outcome EXCEPT ![c] = Threw(AxiosError)]
  /\ UNCHANGED <<fs, umask, crashed, op, arg, sent, waited, activation, buffer, zip>>

AxiosRespondsKeepingCache(c, size) ==
  /\ ~crashed
  /\ pc[c] = "Downloading" /\ stream[c].status = "requested"
  /\ stream' = [stream EXCEPT ![c] = [status |-> "open", size |-> size]]
  /\ UNCHANGED <<fs, umask, crashed, op, arg, pc, sent, waited, activation, buffer, zip, outcome>>

AxiosResponds(c, size) ==
  /\ ~crashed
  /\ pc[c] = "Downloading" /\ stream[c].status = "requested"
  /\ LET cache == PathJoin(cacheArea, arg[c])
         r == ResetCache(fs, cache)
     IN /\ fs' = r.fs
        /\ IF r.ok
           THEN /\ stream' = [stream EXCEPT ![c] = [status |-> "open", size |-> size]]
                /\ UNCHANGED <<pc, outcome>>
           ELSE /\ stream' = [stream EXCEPT ![c] = [status |-> "unread", size |-> size]]
                /\ pc' = [pc EXCEPT ![c] = "Failed"]
                /\ outcome' = [outcome EXCEPT ![c] = Threw(r.error)]
  /\ UNCHANGED <<umask, crashed, op, arg, sent, waited, activation, buffer, zip>>

SinkWrite(held, chunk) == held + chunk

PipeData(c) ==
  /\ ~crashed
  /\ pc[c] = "Downloading" /\ stream[c].status = "open"
  /\ buffer[c] < stream[c].size
  /\ buffer' = [buffer EXCEPT ![c] = SinkWrite(@, ChunkBytes)]
  /\ UNCHANGED <<fs, umask, crashed, op, arg, pc, sent, waited, activation, stream, zip, outcome>>

PipeFinishBeforeEnd(c) ==
  /\ ~crashed
  /\ pc[c] = "Downloading" /\ stream[c].status = "open"
  /\ buffer[c] > 0
  /\ stream' = [stream EXCEPT ![c].status = "ended"]
  /\ pc' = [pc EXCEPT ![c] = "Extracting"]
  /\ UNCHANGED <<fs, umask, crashed, op, arg, sent, waited, activation, buffer, zip, outcome>>

PipeFinish(c) ==
  /\ ~crashed
  /\ pc[c] = "Downloading" /\ stream[c].status = "open"
  /\ buffer[c] = stream[c].size
  /\ stream' = [stream EXCEPT ![c].status = "ended"]
  /\ pc' = [pc EXCEPT ![c] = "Extracting"]
  /\ UNCHANGED <<fs, umask, crashed, op, arg, sent, waited, activation, buffer, zip, outcome>>

StreamError(c, uncaught) ==
  /\ ~crashed
  /\ pc[c] = "Downloading" /\ stream[c].status = "open"
  /\ buffer[c] < stream[c].size
  /\ stream' = [stream EXCEPT ![c].status = "errored"]
  /\ crashed' = uncaught
  /\ UNCHANGED <<fs, umask, op, arg, pc, sent, waited, activation, buffer, zip, outcome>>

ExtractIntoClearedCache(c, data) ==
  /\ ~crashed
  /\ pc[c] = "Extracting"
  /\ LET cache == PathJoin(cacheArea, arg[c])
         r == ExtractZip(ResetCache(fs, cache).fs, cache, data, umask)
     IN /\ zip' = [zip EXCEPT ![c] = data]
        /\ fs' = r.fs
        /\ pc' = [pc EXCEPT ![c] = IF r.ok THEN "Done" ELSE "Failed"]
        /\ outcome' = [outcome EXCEPT ![c] = IF r.ok THEN Returned(cache) ELSE Threw(r.error)]
  /\ UNCHANGED <<umask, crashed, op, arg, sent, waited, activation, stream, buffer>>

Extract(c, data) ==
  /\ ~crashed
  /\ pc[c] = "Extracting"
  /\ LET cache == PathJoin(cacheArea, arg[c])
         r == ExtractZip(fs, cache, data, umask)
     IN /\ zip' = [zip EXCEPT ![c] = data]
        /\ fs' = r.fs
        /\ pc' = [pc EXCEPT ![c] = IF r.ok THEN "Done" ELSE "Failed"]
        /\ outcome' = [outcome EXCEPT ![c] = IF r.ok THEN Returned(cache) ELSE Threw(r.error)]
  /\ UNCHANGED <<umask, crashed, op, arg, sent, waited, activation, stream, buffer>>

(***************************************************************************)
(* deleteSlice.                                                            *)
(***************************************************************************)
DeleteStartRemovingLocal(c, filePath) ==
  /\ CanStart(c)
  /\ LET sliceName == PathRelative(cacheArea, filePath)
     IN sent' = [sent EXCEPT ![c] = Append(@, Request(DELETE_ASSETS_URL, sliceName))]
  /\ fs' = RimrafSync(fs, filePath)
  /\ op' = [op EXCEPT ![c] = "delete"]
  /\ arg' = [arg EXCEPT ![c] = filePath]
  /\ pc' = [pc EXCEPT ![c] = "Submitting"]
  /\ UNCHANGED <<umask, crashed, waited, activation, stream, buffer, zip, outcome>>

DeleteStart(c, filePath) ==
  /\ CanStart(c)
  /\ LET sliceName == PathRelative(cacheArea, filePath)
     IN sent' = [sent EXCEPT ![c] = Append(@, Request(DELETE_ASSETS_URL, sliceName))]
  /\ op' = [op EXCEPT ![c] = "delete"]
  /\ arg' = [arg EXCEPT ![c] = filePath]
  /\ pc' = [pc EXCEPT ![c] = "Submitting"]
  /\ UNCHANGED <<fs, umask, crashed, waited, activation, stream, buffer, zip, outcome>>

DeleteActivation(c, a) ==
  /\ ~crashed
  /\ pc[c] = "Polling" /\ op[c] = "delete"
  /\ activation' = [activation EXCEPT ![c] = a]
  /\ pc' = [pc EXCEPT ![c] = "Done"]
  /\ outcome' = [outcome EXCEPT ![c] = Returned(<<>>)]
  /\ UNCHANGED <<fs, umask, crashed, op, arg, sent, waited, stream, buffer, zip>>

FilePaths == {PathJoin(cacheArea, n) : n \in SliceNames}

(***************************************************************************)
(* Specifications: Spec lets the calls overlap; SpecSeq starts a call only *)
(* when no other call is still running.                                    *)
(***************************************************************************)
Start(c) ==
  \/ \E n \in SliceNames : FetchStart(c, n)
  \/ \E p \in FilePaths : DeleteStart(c, p)

Step(c) ==
  \/ InvokeResolves(c)
  \/ InvokeRejects(c)
  \/ \E a \in WaitForActivation(waited[c]) : FetchActivation(c, a)
  \/ AxiosRejects(c)
  \/ \E size \in BodySizes : AxiosResponds(c, size)
  \/ PipeData(c)
  \/ PipeFinish(c)
  \/ \E uncaught \in BOOLEAN : StreamError(c, uncaught)
  \/ \E data \in Archives \cup {Malformed} : Extract(c, data)
  \/ \E a \in WaitForActivation(waited[c]) : DeleteActivation(c, a)

Next == \E c \in Calls : Start(c) \/ Step(c)

Spec == Init /\ [][Next]_vars

NextSeq ==
  \E c \in Calls :
    \/ (\A d \in Calls : ~Active(d)) /\ Start(c)
    \/ Step(c)

SpecSeq == Init /\ [][NextSeq]_vars

(***************************************************************************)
(* SpecNames: one fetchSlice with a slice name of any shape, relative path *)
(* segments included, and deleteSlice calls on the path it returned.       *)
(***************************************************************************)
NameSegments == {"foo", "lib", ".."}

NameInputs == UNION {[1..k -> NameSegments] : k \in 1..MaxNameLen}

NextNames ==
  \E c \in Calls :
    \/ \E n \in NameInputs : c = 1 /\ FetchStart(c, n)
    \/ \E d \in Calls : op[d] = "fetch" /\ pc[d] = "Done" /\ DeleteStart(c, outcome[d].value)
    \/ Step(c)

SpecNames == Init /\ [][NextNames]_vars

(***************************************************************************)
(* SpecAttr: one fetchSlice at a time, the archive holding one file whose  *)
(* attribute ranges over both halves of the 32-bit value: upper halves     *)
(* with and without bit 31, lower halves from empty to all ones.           *)
(***************************************************************************)
AttrHighs == {0, 420, 493, 32767, 32768, 33188, 33261, 65535}

AttrLows == {0, 16, 32, 65535}

AttrArchives ==
  {<<[entryName |-> <<"index.js">>, attr |-> Attr(h, l), data |-> "v1"]>> :
      h \in AttrHighs, l \in AttrLows}

NextAttr ==
  \E c \in Calls :
    \/ \E n \in SliceNames : CanStart(c) /\ (\A d \in Calls : ~Active(d)) /\ FetchStart(c, n)
    \/ InvokeResolves(c)
    \/ InvokeRejects(c)
    \/ \E a \in WaitForActivation(waited[c]) : FetchActivation(c, a)
    \/ AxiosRejects(c)
    \/ \E size \in BodySizes : AxiosResponds(c, size)
    \/ PipeData(c)
    \/ PipeFinish(c)
    \/ \E uncaught \in BOOLEAN : StreamError(c, uncaught)
    \/ \E data \in AttrArchives : Extract(c, data)

SpecAttr == Init /\ [][NextAttr]_vars

(***************************************************************************)
(* Vocabulary of the properties.                                           *)
(***************************************************************************)
Range(q) == {q[i] : i \in DOMAIN q}

CacheOf(c) == PathJoin(cacheArea, arg[c])

\* The fetch c has returned and no later call has begun.
JustFetched(c) ==
  /\ op[c] = "fetch" /\ pc[c] = "Done"
  /\ \A d \in Calls : d > c => pc[d] = "Idle"

FilesUnder(f, p) == {q \in DOMAIN f.files : IsPrefix(p, q)}

TreeUnder(f, p) ==
  [dirs  |-> {d \in f.dirs : IsPrefix(p, d)},
   files |-> [q \in FilesUnder(f, p) |-> f.files[q]]]

FilesWithModes(f, p) == {<<q, f.files[q].mode>> : q \in FilesUnder(f, p)}

\* The upper 16 bits of the attribute's bit pattern, and its permission bits.
HighHalf(a) == IF a >= 0 THEN a \div 65536 ELSE 65536 + (a \div 65536)

RecordedPermissions(e) == HighHalf(e.attr) % 4096

BitOf(x, k) == (x \div (2 ^ k)) % 2

SumBits(S, m, u) ==
  LET RECURSIVE Sum(_)
      Sum(T) == IF T = {} THEN 0
                ELSE LET k == CHOOSE x \in T : TRUE
                     IN (IF BitOf(m, k) = 1 /\ BitOf(u, k) = 0 THEN 2 ^ k ELSE 0)
                        + Sum(T \ {k})
  IN Sum(S)

WithoutMaskBits(m, u) == SumBits(0..11, m, u)

StaysInside(a) == \A i \in 1..Len(a) : \A k \in 1..Len(a[i].entryName) : a[i].entryName[k] # ".."

\* C1 as stated: after a successful fetchSlice the files under the returned
\* path are exactly the non-directory entries of the archive, each with the
\* permission bits recorded for it.
C1_FilesAreTheEntries ==
  \A c \in Calls :
    JustFetched(c) =>
      FilesWithModes(fs, outcome[c].value) =
        {<<outcome[c].value \o e.entryName, RecordedPermissions(e)>> :
            e \in {x \in Range(zip[c]) : ~isDirectory(x)}}

\* C1 amended: for an archive none of whose entry names has a ".." segment,
\* after a successful fetchSlice the files under the returned path are exactly
\* the non-directory entries of the archive, each with the permission bits
\* recorded for it less the bits of the process umask.
C1_FilesAreTheEntriesInside ==
  \A c \in Calls :
    (JustFetched(c) /\ StaysInside(zip[c])) =>
      FilesWithModes(fs, outcome[c].value) =
        {<<outcome[c].value \o e.entryName, WithoutMaskBits(RecordedPermissions(e), umask)>> :
            e \in {x \in Range(zip[c]) : ~isDirectory(x)}}

C1_Witness ==
  \E c \in Calls :
    /\ JustFetched(c) /\ StaysInside(zip[c])
    /\ \E x, y \in Range(zip[c]) : isDirectory(x) /\ ~isDirectory(y)
    /\ FilesUnder(fs, outcome[c].value) # {}

\* C2: after a successful fetchSlice(n) the tree under the cache directory of
\* n is the one the extraction of the downloaded archive produces in a newly
\* made directory, whatever the cache entry held before.
ExtractedAlone(cache, data, mask) ==
  TreeUnder(ExtractZip([dirs |-> Prefixes(cache), files |-> <<>>], cache, data, mask).fs, cache)

C2_OnlyTheLatestArchive ==
  \A c \in Calls :
    JustFetched(c) => TreeUnder(fs, CacheOf(c)) = ExtractedAlone(CacheOf(c), zip[c], umask)

C2_Witness ==
  \E c, d \in Calls :
    /\ d < c /\ JustFetched(c)
    /\ op[d] = "fetch" /\ pc[d] = "Done" /\ arg[d] = arg[c]
    /\ \E e \in Range(FileEntries(zip[d])) :
         /\ StaysInside(<<e>>)
         /\ e \notin Range(zip[c])

\* C3: when the activation of getDownloadUrl did not complete within the
\* timeout, fetchSlice has failed with "Timed out fetching assets url for
\* '<sliceName>'" and has neither requested the download nor read an archive.
C3_TimeoutFailsBeforeDownload ==
  \A c \in Calls :
    (op[c] = "fetch" /\ activation[c].status = "timedout") =>
      /\ waited[c] = 60
      /\ pc[c] = "TimedOut"
      /\ outcome[c].kind = "threw"
      /\ outcome[c].error.text = "Timed out fetching assets url for"
      /\ outcome[c].error.slice = arg[c]
      /\ \A i \in 1..Len(sent[c]) : sent[c][i].action # "GET"
      /\ stream[c].status = "none" /\ buffer[c] = 0 /\ zip[c] = <<>>

C3_Witness ==
  \E c \in Calls :
    /\ op[c] = "fetch" /\ activation[c].status = "timedout"
    /\ \E d \in Calls : d # c /\ pc[d] = "Done" /\ op[d] = "fetch" /\ arg[d] = arg[c]

\* C4: the download is requested only for a completed activation whose
\* response reports success and carries a non-empty url, and it is then
\* requested from that url; every other completed activation makes fetchSlice
\* fail with "Failed to fetch assets url for '<sliceName>'", which is not the
\* message of the timeout.
HasUrl(act) ==
  act.status = "completed" /\ act.hasResponse /\ act.success /\ act.url = Url

Downloads(c) == {i \in 1..Len(sent[c]) : sent[c][i].action = "GET"}

C4_DownloadOnlyOnUsableResult ==
  \A c \in Calls :
    op[c] = "fetch" =>
      /\ Downloads(c) # {} =>
           (HasUrl(activation[c]) /\ \A i \in Downloads(c) : sent[c][i].name = <<activation[c].url>>)
      /\ HasUrl(activation[c]) =>
           (Downloads(c) # {} /\ ~(outcome[c].kind = "threw" /\ outcome[c].error.slice = arg[c]))
      /\ (activation[c].status = "completed" /\ ~HasUrl(activation[c])) =>
           /\ pc[c] = "Failed"
           /\ outcome[c].kind = "threw"
           /\ outcome[c].error.text = "Failed to fetch assets url for"
           /\ outcome[c].error.slice = arg[c]
           /\ outcome[c].error # TimedOutError(arg[c])
           /\ stream[c].status = "none"

C4_Witness ==
  \E c, d \in Calls :
    /\ op[c] = "fetch" /\ activation[c] = Activation(TRUE, TRUE, "") /\ pc[c] = "Failed"
    /\ op[d] = "fetch" /\ HasUrl(activation[d]) /\ pc[d] = "Done"

\* C5 as stated: once the download stream has errored mid-transfer,
\* fetchSlice has failed with the transport error and has read no archive.
C5_StreamErrorFailsTheFetch ==
  \A c \in Calls :
    stream[c].status = "errored" =>
      /\ ~crashed
      /\ pc[c] = "Failed"
      /\ outcome[c].kind = "threw"
      /\ zip[c] = <<>>

\* C6: deleteSlice on <cacheRoot>/<name> has submitted deleteBuildAssets with
\* exactly name = <name> by the time it waits, whatever the wait returns, and
\* when the wait timed out it has returned normally.
C6_DeleteSubmitsNameAndToleratesTimeout ==
  \A c \in Calls : \A n \in {<<"foo">>, <<"bar">>} :
    (op[c] = "delete" /\ arg[c] = <<"tmp", "slices">> \o n) =>
      /\ sent[c] = <<[action |-> "builder/deleteBuildAssets", name |-> n]>>
      /\ activation[c].status = "timedout" =>
           (pc[c] = "Done" /\ outcome[c].kind = "returned")

C6_Witness ==
  \E c \in Calls :
    /\ op[c] = "delete" /\ arg[c] = <<"tmp", "slices", "foo">>
    /\ activation[c].status = "timedout" /\ pc[c] = "Done"

\* C7: no step of a deleteSlice call changes the local file system.
C7_DeleteLeavesCacheUnchanged ==
  [][\A c \in Calls : (op'[c] = "delete" /\ pc'[c] # pc[c]) => fs' = fs]_vars

C7_Witness ==
  \E c, d \in Calls :
    /\ op[c] = "delete" /\ pc[c] = "Done"
    /\ op[d] = "fetch" /\ pc[d] = "Done" /\ CacheOf(d) = arg[c]
    /\ FilesUnder(fs, arg[c]) # {}

\* C8 as stated: every failure of fetchSlice reaches the caller with a
\* message that includes the slice name and a cause phrase.
MessageNames(error, sliceName) ==
  \/ error.slice = sliceName
  \/ error.path # <<>> /\ IsPrefix(PathJoin(cacheArea, sliceName), error.path)

C8_FailureNamesTheSlice ==
  \A c \in Calls :
    (op[c] = "fetch" /\ pc[c] \in {"Failed", "TimedOut"}) =>
      /\ outcome[c].kind = "threw"
      /\ outcome[c].error.text # ""
      /\ MessageNames(outcome[c].error, arg[c])

\* C9 as stated: the buffer handed to the extraction holds at most
\* MAX_SLICE_UPLOAD_SIZE bytes, and a download longer than that does not
\* end in a successful fetch.
C9_DownloadIsBounded ==
  \A c \in Calls :
    /\ pc[c] \in {"Extracting", "Done"} => buffer[c] <= MAX_SLICE_UPLOAD_SIZE
    /\ stream[c].size > MAX_SLICE_UPLOAD_SIZE => pc[c] \notin {"Extracting", "Done"}

\* C10 as stated: whenever a fetchSlice call has cleared and recreated the
\* cache entry, its download has already finished.
HasReset(c) == stream[c].status \in {"open", "errored", "ended", "unread"}

C10_ResetAfterDownload ==
  \A c \in Calls : HasReset(c) => stream[c].status = "ended"

\* C10 amended: a fetchSlice call clears and recreates the cache entry when
\* the download response arrives, before any of the body is received: while
\* the body is being transferred, and after the transfer has errored, the
\* cache directory of the slice exists and is empty, whatever it held before.
Transferring(c) ==
  /\ op[c] = "fetch" /\ pc[c] = "Downloading"
  /\ stream[c].status \in {"open", "errored"}
  /\ \A d \in Calls : d > c => pc[d] = "Idle"

C10_ResetBeforeBody ==
  \A c \in Calls :
    Transferring(c) =>
      TreeUnder(fs, CacheOf(c)) = [dirs |-> {CacheOf(c)}, files |-> <<>>]

C10_Witness ==
  \E c, d \in Calls :
    /\ d < c /\ op[d] = "fetch" /\ pc[d] = "Done" /\ arg[d] = arg[c]
    /\ \E e \in Range(FileEntries(zip[d])) : StaysInside(<<e>>)
    /\ Transferring(c) /\ stream[c].status = "errored" /\ buffer[c] > 0

\* C11 as stated: no fetchSlice call is ever left waiting for good: as long
\* as the call has not reached Done, TimedOut or Failed, a further step of
\* it (an answer of the backend, a poll timeout, an event of the download
\* stream, the continuation of the call) is possible.
Terminal == {"Done", "TimedOut", "Failed"}

C11_NoFetchWaitsForever ==
  \A c \in Calls :
    (op[c] = "fetch" /\ pc[c] \notin Terminal) => ENABLED Step(c)

\* C12: every fetchSlice call moves along Idle, Submitting, Polling,
\* Downloading, Extracting, Done, leaving this line only for TimedOut (from
\* Polling) or Failed; it enters Polling only with its request submitted and
\* the wait begun, Downloading only with a usable result, Extracting only with
\* the whole body received and the stream ended; the path is returned exactly
\* in Done; and once in Done, TimedOut or Failed nothing of the call changes.
FetchEdges ==
  { <<"Idle", "Submitting">>, <<"Submitting", "Polling">>, <<"Submitting", "Failed">>,
    <<"Polling", "Downloading">>, <<"Polling", "TimedOut">>, <<"Polling", "Failed">>,
    <<"Downloading", "Extracting">>, <<"Downloading", "Failed">>,
    <<"Extracting", "Done">>, <<"Extracting", "Failed">> }

CallState(c) ==
  <<op[c], arg[c], pc[c], sent[c], waited[c], activation[c], stream[c], buffer[c],
    zip[c], outcome[c]>>

C12_FetchStateMachine ==
  [][\A c \in Calls :
       op'[c] = "fetch" =>
         /\ pc'[c] # pc[c] => <<pc[c], pc'[c]>> \in FetchEdges
         /\ (pc'[c] = "Polling" /\ pc[c] # "Polling") =>
              /\ sent'[c] = <<[action |-> "builder/getDownloadUrl", name |-> arg'[c]]>>
              /\ waited'[c] = 60 /\ activation'[c].status = "pending"
         /\ (pc'[c] = "Downloading" /\ pc[c] # "Downloading") => HasUrl(activation'[c])
         /\ (pc'[c] = "Extracting" /\ pc[c] # "Extracting") =>
              /\ stream'[c].status = "ended"
              /\ buffer'[c] = stream'[c].size /\ buffer'[c] > 0
         /\ (outcome'[c].kind = "returned") <=> (pc'[c] = "Done")
         /\ pc'[c] = "Done" => outcome'[c].value = <<"tmp", "slices">> \o arg'[c]
         /\ pc[c] \in Terminal => CallState(c)' = CallState(c)]_vars

C12_Witness ==
  \E c, d \in Calls :
    /\ op[c] = "fetch" /\ pc[c] = "Done" /\ outcome[c].kind = "returned"
    /\ op[d] = "fetch" /\ pc[d] = "TimedOut"

\* C13: a fetchSlice call submits getDownloadUrl exactly once, when it
\* starts, and requests the download at most once; a deleteSlice call submits
\* deleteBuildAssets exactly once; no call issues any other request, and a
\* call that has timed out or failed issues no request afterwards.
Count(q, action) == Cardinality({i \in 1..Len(q) : q[i].action = action})

C13_NoRetries ==
  /\ [](\A c \in Calls :
         /\ op[c] = "fetch" =>
              /\ Count(sent[c], "builder/getDownloadUrl") = 1
              /\ Count(sent[c], "GET") <= 1
              /\ Len(sent[c]) = 1 + Count(sent[c], "GET")
         /\ op[c] = "delete" =>
              /\ Count(sent[c], "builder/deleteBuildAssets") = 1
              /\ Len(sent[c]) = 1
         /\ pc[c] \in {"TimedOut", "Failed"} /\ activation[c].status # "completed" =>
              Len(sent[c]) = 1)
  /\ [][\A c \in Calls :
         (pc[c] \in Terminal \/ activation[c].status = "timedout") => sent'[c] = sent[c]]_vars

C13_Witness ==
  \E c, d \in Calls :
    /\ op[c] = "fetch" /\ pc[c] = "TimedOut" /\ Len(sent[c]) = 1
    /\ op[d] = "delete" /\ pc[d] = "Done" /\ activation[d].status = "timedout"

\* C14 as stated: for overlapping fetchSlice calls with distinct slice names,
\* a call that has succeeded has its cache directory as its archive alone
\* makes it, and no step of one call changes anything inside the cache
\* directory of the other.
Changed(c) == CallState(c)' # CallState(c)

C14_DistinctNamesDoNotInterfere ==
  /\ [](\A c \in Calls :
         (/\ op[c] = "fetch" /\ pc[c] = "Done"
          /\ \A d \in Calls \ {c} : op[d] = "fetch" => arg[d] # arg[c]) =>
           TreeUnder(fs, CacheOf(c)) = ExtractedAlone(CacheOf(c), zip[c], umask))
  /\ [][\A c, d \in Calls :
         (/\ c # d /\ op'[c] = "fetch" /\ op[d] = "fetch"
          /\ arg'[c] # arg[d]
          /\ Changed(c)) =>
           TreeUnder(fs', CacheOf(d)) = TreeUnder(fs, CacheOf(d))]_vars

\* C14 amended: the same for slice names neither of which is a leading part
\* of the other's path and for archives without ".." segments in their entry
\* names.
Related(n, m) == IsPrefix(n, m) \/ IsPrefix(m, n)

C14_UnrelatedNamesDoNotInterfere ==
  /\ [](\A c \in Calls :
         (/\ op[c] = "fetch" /\ pc[c] = "Done"
          /\ \A d \in Calls \ {c} :
               op[d] = "fetch" => (~Related(arg[d], arg[c]) /\ StaysInside(zip[d]))) =>
           TreeUnder(fs, CacheOf(c)) = ExtractedAlone(CacheOf(c), zip[c], umask))
  /\ [][\A c, d \in Calls :
         (/\ c # d /\ op'[c] = "fetch" /\ op[d] = "fetch"
          /\ ~Related(arg'[c], arg[d])
          /\ StaysInside(zip'[c])
          /\ Changed(c)) =>
           TreeUnder(fs', CacheOf(d)) = TreeUnder(fs, CacheOf(d))]_vars

C14_Witness ==
  \E c, d \in Calls :
    /\ c # d /\ op[c] = "fetch" /\ op[d] = "fetch" /\ ~Related(arg[c], arg[d])
    /\ pc[c] = "Done" /\ pc[d] = "Done"
    /\ StaysInside(zip[c]) /\ StaysInside(zip[d])
    /\ FilesUnder(fs, CacheOf(c)) # {} /\ FilesUnder(fs, CacheOf(d)) # {}

\* C15: the extraction of a fetchSlice call does not clear the cache
\* directory again: it adds the files of its archive to whatever the
\* directory holds at that moment and removes none, so that the files another
\* call for the same name extracted after both had reset the directory stay
\* beside its own.
WrittenBy(c, data) ==
  {NormalizeFrom(<<>>, (<<"tmp", "slices">> \o arg[c]) \o e.entryName) :
     e \in {x \in Range(data) : ~isDirectory(x)}}

C15_ExtractionMergesIntoCache ==
  [][\A c \in Calls :
       (op[c] = "fetch" /\ pc[c] = "Extracting" /\ pc'[c] = "Done") =>
         /\ DOMAIN fs'.files = DOMAIN fs.files \cup WrittenBy(c, zip'[c])
         /\ \A q \in DOMAIN fs.files \ WrittenBy(c, zip'[c]) : fs'.files[q] = fs.files[q]
         /\ fs.dirs \subseteq fs'.dirs]_vars

C15_Witness ==
  \E c, d \in Calls :
    /\ c # d /\ op[c] = "fetch" /\ op[d] = "fetch" /\ arg[c] = arg[d]
    /\ pc[c] = "Done" /\ pc[d] = "Done"
    /\ outcome[c].kind = "returned" /\ outcome[d] = outcome[c]
    /\ StaysInside(zip[c]) /\ StaysInside(zip[d])
    /\ WrittenBy(c, zip[c]) \ WrittenBy(d, zip[d]) # {}
    /\ WrittenBy(d, zip[d]) \ WrittenBy(c, zip[c]) # {}
    /\ FilesUnder(fs, CacheOf(c)) = WrittenBy(c, zip[c]) \cup WrittenBy(d, zip[d])

\* C16 as stated: deleteSlice on the path fetchSlice(n) returned submits
\* the delete action with name = n, for every slice name n.
DeletesOf(d) ==
  {c \in Calls : op[c] = "delete" /\ op[d] = "fetch" /\ pc[d] = "Done"
                 /\ arg[c] = outcome[d].value}

C16_DeleteNameIsFetchName ==
  \A d \in Calls : \A c \in DeletesOf(d) :
    sent[c] = <<[action |-> "builder/deleteBuildAssets", name |-> arg[d]]>>

\* C16 amended: the same for every slice name made of plain segments only:
\* no segment is empty, "." or "..".
NormalizedName(n) == \A i \in 1..Len(n) : n[i] \notin {"", ".", ".."}

C16_DeleteNameIsNormalizedFetchName ==
  \A d \in Calls : \A c \in DeletesOf(d) :
    NormalizedName(arg[d]) =>
      sent[c] = <<[action |-> "builder/deleteBuildAssets", name |-> arg[d]]>>

C16_Witness ==
  \E d \in Calls : \E c \in DeletesOf(d) :
    /\ arg[d] = <<"foo", "lib">>
    /\ pc[c] = "Done"

\* C17: for every attribute of a file entry, the mode handed to the write is
\* the upper 16 bits of the attribute as an unsigned value, in 0..65535 also
\* when bit 31 is set, the same whatever the lower 16 bits are; the file a
\* successful extraction creates carries that mode's permission bits.
WithLowHalf(a, lo) == a - (a % 65536) + lo

C17_ModeIsUnsignedUpperHalf ==
  /\ [](\A c \in Calls :
          (op[c] = "fetch" /\ pc[c] = "Done") =>
            \A e \in Range(FileEntries(zip[c])) :
              LET mode == UnsignedShiftRight16(e.attr)
              IN /\ mode = HighHalf(e.attr)
                 /\ mode \in 0..65535
                 /\ \A lo \in AttrLows :
                      UnsignedShiftRight16(WithLowHalf(e.attr, lo)) = mode)
  /\ [][\A c \in Calls :
          (op[c] = "fetch" /\ pc[c] = "Extracting" /\ pc'[c] = "Done") =>
            \A e \in Range(FileEntries(zip'[c])) :
              LET target == CacheOf(c) \o e.entryName
              IN target \notin DOMAIN fs.files =>
                   /\ target \in DOMAIN fs'.files
                   /\ fs'.files[target].mode = CreateMode(HighHalf(e.attr), umask)]_vars

C17_Witness ==
  \E c \in Calls :
    /\ op[c] = "fetch" /\ pc[c] = "Done"
    /\ \E e \in Range(FileEntries(zip[c])) :
         /\ e.attr < 0
         /\ e.attr % 65536 # 0
         /\ CacheOf(c) \o e.entryName \in DOMAIN fs.files
         /\ fs.files[CacheOf(c) \o e.entryName].mode = CreateMode(HighHalf(e.attr), umask)

\* C18: every step of a fetchSlice call that ends with the download response
\* not obtained leaves the file system as it was, and a call that failed on
\* the invocation, the activation timeout, the unusable result or the
\* rejected download request never had a response; so the copy an earlier
\* call cached is still there after such a failure.
EarlyFailures(c) ==
  {TimedOutError(arg[c]), FailedError(arg[c]), InvokeError, AxiosError}

C18_EarlyFailureLeavesCacheUnchanged ==
  /\ [](\A c \in Calls :
          (op[c] = "fetch" /\ outcome[c].kind = "threw"
           /\ outcome[c].error \in EarlyFailures(c)) => stream[c] = NoStream)
  /\ [][\A c \in Calls :
          (op'[c] = "fetch" /\ Changed(c) /\ stream'[c].status \in {"none", "requested"}) =>
            fs' = fs]_vars

C18_Witness ==
  \E c, d \in Calls :
    /\ d < c /\ op[d] = "fetch" /\ pc[d] = "Done" /\ arg[d] = arg[c]
    /\ op[c] = "fetch" /\ outcome[c].kind = "threw"
    /\ outcome[c].error = FailedError(arg[c])
    /\ FilesUnder(fs, CacheOf(c)) # {}
    /\ TreeUnder(fs, CacheOf(c)) = ExtractedAlone(CacheOf(d), zip[d], umask)

====
